---- MODULE Spec2Model ----
(***************************************************************************)
(* Model of pg_ipm.c: a loadable PostgreSQL module that installs an        *)
(* ExecutorRun hook (sentinel_ExecutorRun) whose private copy of           *)
(* ExecutePlan adds bounded random noise to one int4 column of every row   *)
(* that comes from one configured relation.                                *)
(*                                                                         *)
(* The state is the module's static variables, the hook slot of the host,  *)
(* the query descriptor of the statement being executed, the locals of the *)
(* two functions, and counters of what the producer (ExecProcNode,         *)
(* ExecShutdownNode), the consumer (rStartup, receiveSlot, rShutdown) and  *)
(* the instrumentation saw.                                                *)
(***************************************************************************)
EXTENDS Integers, Sequences, FiniteSets

(***************************************************************************)
(* Bounds of the model.                                                    *)
(***************************************************************************)
\* rows the producer hands out in one statement execution, at most
MaxRows == 2
\* widest row (number of attributes of a slot)
MaxAtts == 2
\* largest row quota (count) a caller passes
MaxCount == 2
\* largest value rand() returns in the model
MaxRand == 11

(***************************************************************************)
(* Program constants.                                                      *)
(***************************************************************************)
\* int32 col_val
MaxInt32 == 2147483647
MinInt32 == (-MaxInt32) - 1
\* (rand() % (5 - (-5) + 1)) + (-5)
NoiseLow == -5
NoiseHigh == 5
\* boot value of both integer settings ("disabled")
GucBootValue == 0
\* the relation a deployment monitors, and another relation
MonitoredOid == 17
OtherOid == 42
\* InvalidOid, the tts_tableOid of a slot that is no table row
InvalidOid == 0
\* an ordinary column value
PlainDatum == 100

CMD_SELECT == "CMD_SELECT"
CMD_INSERT == "CMD_INSERT"
Forward == "ForwardScanDirection"
NoMovement == "NoMovementScanDirection"
NullHook == "NULL"
OtherHook == "other_ExecutorRun"
SentinelHook == "sentinel_ExecutorRun"
NoLevel == "unset"
ERROR == "ERROR"
FATAL == "FATAL"

(***************************************************************************)
(* Rows: a slot is its tts_tableOid, its tts_values and its tts_isnull.    *)
(* A null attribute holds the datum 0, as slot deforming stores it.        *)
(***************************************************************************)
NoRow == [tableOid |-> -1, values |-> <<>>, isnull |-> <<>>]

Cell(v, n) == [v |-> v, n |-> n]

CellsOf(datums, nullable) ==
    {Cell(d, FALSE) : d \in datums} \cup (IF nullable THEN {Cell(0, TRUE)} ELSE {})

RowOf(oid, cells) ==
    [tableOid |-> oid,
     values   |-> [i \in 1..Len(cells) |-> cells[i].v],
     isnull   |-> [i \in 1..Len(cells) |-> cells[i].n]]

RowsOver(oids, datums, nullable, widths) ==
    {RowOf(o, c) : o \in oids,
                   c \in UNION {[1..w -> CellsOf(datums, nullable)] : w \in widths}}

\* rows of every width whose attributes reach the ends of int32
DataRows == RowsOver({MonitoredOid, OtherOid}, {MinInt32, PlainDatum, MaxInt32}, TRUE,
             1..MaxAtts)
\* rows of the widest shape only, from every origin, with ordinary values
PlainRows == RowsOver({InvalidOid, MonitoredOid, OtherOid}, {PlainDatum}, FALSE,
              {MaxAtts})

(***************************************************************************)
(* Settings: pg_sentinel.relation_oid and pg_sentinel.column_no, both      *)
(* integers in 0..INT_MAX with boot value 0.                               *)
(***************************************************************************)
Guc(oid, col) == [relation_oid |-> oid, col_no |-> col]

AllGucs == {Guc(o, c) : o \in {GucBootValue, MonitoredOid}, c \in 0..(MaxAtts + 1)}

(***************************************************************************)
(* Query descriptors: what sentinel_ExecutorRun reads of its arguments.    *)
(***************************************************************************)
QueryDesc(op, ret, cnt, dir, back, expl, instr, par) ==
    [operation |-> op, hasReturning |-> ret, count |-> cnt, direction |-> dir,
     backward |-> back, explainOnly |-> expl, totaltime |-> instr,
     parallelModeNeeded |-> par]

\* a SELECT has no RETURNING list
Statements == {<<CMD_SELECT, FALSE>>, <<CMD_INSERT, FALSE>>, <<CMD_INSERT, TRUE>>}

\* every shape of a statement that really executes, and the explain-only
\* descriptors of an unlimited forward or no-movement run
AllQueryDescs ==
    {QueryDesc(st[1], st[2], cnt, dir, back, FALSE, instr, par) :
        st \in Statements, cnt \in 0..MaxCount, dir \in {Forward, NoMovement},
        back \in BOOLEAN, instr \in BOOLEAN, par \in BOOLEAN}
    \cup
    {QueryDesc(st[1], st[2], 0, dir, FALSE, TRUE, instr, FALSE) :
        st \in Statements, dir \in {Forward, NoMovement}, instr \in BOOLEAN}

\* reads and one write, unlimited, forward
DataQueryDescs ==
    {QueryDesc(st[1], st[2], 0, dir, FALSE, expl, FALSE, FALSE) :
        st \in {<<CMD_SELECT, FALSE>>, <<CMD_INSERT, TRUE>>},
        dir \in {Forward, NoMovement}, expl \in BOOLEAN}

NoQuery == QueryDesc(CMD_SELECT, FALSE, 0, NoMovement, FALSE, FALSE, FALSE, FALSE)

VARIABLES
    \* the module's statics and the host's hook slot
    loaded, relation_oid, col_no, abort_statement_only, elevel,
    prev_ExecutorRun_hook, ExecutorRun_hook,
    \* the hook that was installed before the module was loaded
    hook_before_init,
    \* the statement being executed
    pc, queryDesc, sendTuples, use_parallel_mode, current_tuple_count,
    slot, es_processed,
    \* what the collaborators saw during this statement execution
    pulled, delivered, npulled, nreceived, declined, exit_reason,
    nShutdownNode, nStartup, nShutdown, nInstrStart, nInstrStop,
    instr_tuples, nEnterParallel, nExitParallel, nPrevHookCalls, oob_write

module_vars == <<loaded, relation_oid, col_no, abort_statement_only, elevel,
                 prev_ExecutorRun_hook, ExecutorRun_hook, hook_before_init>>
plan_vars == <<sendTuples, use_parallel_mode, current_tuple_count, slot,
               es_processed>>
producer_vars == <<pulled, npulled, nShutdownNode>>
consumer_vars == <<delivered, nreceived, declined, nStartup, nShutdown>>
host_vars == <<nInstrStart, nInstrStop, instr_tuples, nEnterParallel,
               nExitParallel, nPrevHookCalls, oob_write>>
vars == <<module_vars, pc, queryDesc, plan_vars, producer_vars, consumer_vars,
          host_vars, exit_reason>>


(***************************************************************************)
(* Pure parts of the code.                                                 *)
(***************************************************************************)
\* int32 addition of a small delta; the host is built with wrapping signed
\* arithmetic, so a sum outside int32 wraps around
AddInt32(a, d) ==
    IF d > 0 /\ a > MaxInt32 - d
    THEN MinInt32 + ((d - 1) - (MaxInt32 - a))
    ELSE IF d < 0 /\ a < MinInt32 - d
         THEN MaxInt32 - (((-d) - 1) - (a - MinInt32))
         ELSE a + d

\* (rand() % (5 - (-5) + 1)) + (-5)
Noise(r) == (r % (NoiseHigh - NoiseLow + 1)) + NoiseLow

\* col_val = DatumGetInt32(datum); col_val += noise
TamperValue(datum, r) == AddInt32(datum, Noise(r))

\* mutant: every row is taken for a row of the monitored relation
IsMonitored_AnyRow(s, oid) == TRUE

\* slot->tts_tableOid == relation_oid
IsMonitored(s, oid) == s.tableOid = oid

\* tts_values[attno - 1] is an element of the slot's attribute array
AttrInRow(s, attno) == attno \in 1..Len(s.values)

\* datum = slot_getattr(slot, col_no, &isnull); ...;
\* slot->tts_values[col_no-1] = Int32GetDatum(col_val): isnull is not looked at
TamperSlot(s, attno, r) ==
    [s EXCEPT !.values[attno] = TamperValue(s.values[attno], r)]

\* mutant: rows are counted for every kind of operation
CountProcessed_Always(op, n) == n + 1

\* mutant: only rows of the monitored relation would be counted, which for
\* this operator means the counter is left alone
CountProcessed_Never(op, n) == n

\* if (operation == CMD_SELECT) ... (estate->es_processed)++
CountProcessed(op, n) == IF op = CMD_SELECT THEN n + 1 ELSE n

\* mutant: a RETURNING list is not taken for row emission
SendTuplesFor_SelectOnly(op, ret) == op = CMD_SELECT

\* sendTuples = (operation == CMD_SELECT || plannedstmt->hasReturning)
SendTuplesFor(op, ret) == op = CMD_SELECT \/ ret

\* mutant: a row quota does not switch parallel mode off
UseParallel_IgnoreCount(numberTuples, par) == par

\* if (numberTuples) use_parallel_mode = false
UseParallel(numberTuples, par) == IF numberTuples # 0 THEN FALSE ELSE par

\* mutant: the quota test is off by one
QuotaReached_OffByOne(numberTuples, n) == numberTuples # 0 /\ n > numberTuples

\* numberTuples && numberTuples == current_tuple_count
QuotaReached(numberTuples, n) == numberTuples # 0 /\ numberTuples = n

\* mutant: the flag is not looked at
ShutdownAtEnd_Always(back) == TRUE

\* !(estate->es_top_eflags & EXEC_FLAG_BACKWARD)
ShutdownAtEnd(back) == ~back

\* mutant: teardown clears the hook instead of putting the saved one back
RestoredHook_Null(prev) == NullHook

\* ExecutorRun_hook = prev_ExecutorRun_hook
RestoredHook(prev) == prev

\* mutant: the plan is run whatever the direction
RunsPlan_Always(dir) == TRUE

\* !ScanDirectionIsNoMovement(direction)
RunsPlan(dir) == dir # NoMovement

\* mutant: the instrumentation is told no row was processed
InstrStopTuples_Zero(processed) == 0

\* InstrStopNode(queryDesc->totaltime, estate->es_processed)
InstrStopTuples(processed) == processed

\* elevel = abort_statement_only ? ERROR : FATAL
LevelFor(only) == IF only THEN ERROR ELSE FATAL

Bump(n, cond) == IF cond THEN n + 1 ELSE n

(***************************************************************************)
(* Initial state: the module is not loaded; its statics are zero; the host *)
(* may already have an ExecutorRun hook of another module.                 *)
(***************************************************************************)
Init ==
    /\ loaded = FALSE
    /\ relation_oid = 0
    /\ col_no = 0
    /\ abort_statement_only = FALSE
    /\ elevel = NoLevel
    /\ prev_ExecutorRun_hook = NullHook
    /\ ExecutorRun_hook \in {NullHook, OtherHook}
    /\ hook_before_init = ExecutorRun_hook
    /\ pc = "idle"
    /\ queryDesc = NoQuery
    /\ sendTuples = FALSE
    /\ use_parallel_mode = FALSE
    /\ current_tuple_count = 0
    /\ slot = NoRow
    /\ es_processed = 0
    /\ pulled = NoRow
    /\ delivered = NoRow
    /\ npulled = 0
    /\ nreceived = 0
    /\ declined = FALSE
    /\ exit_reason = "none"
    /\ nShutdownNode = 0
    /\ nStartup = 0
    /\ nShutdown = 0
    /\ nInstrStart = 0
    /\ nInstrStop = 0
    /\ instr_tuples = 0
    /\ nEnterParallel = 0
    /\ nExitParallel = 0
    /\ nPrevHookCalls = 0
    /\ oob_write = FALSE

\* no statement is inside the hook
Quiescent == pc = "idle"

(***************************************************************************)
(* _PG_init: define the two settings, install the hook, choose elevel.     *)
(***************************************************************************)
PG_init(gucs) ==
    /\ Quiescent
    /\ ~loaded
    /\ \E g \in gucs :
        /\ relation_oid' = g.relation_oid
        /\ col_no' = g.col_no
    /\ prev_ExecutorRun_hook' = ExecutorRun_hook
    /\ ExecutorRun_hook' = SentinelHook
    /\ hook_before_init' = ExecutorRun_hook
    /\ elevel' = LevelFor(abort_statement_only)
    /\ loaded' = TRUE
    /\ UNCHANGED <<abort_statement_only, pc, queryDesc, plan_vars,
                   producer_vars, consumer_vars, host_vars, exit_reason>>

(***************************************************************************)
(* _PG_fini: put the saved hook back.                                      *)
(***************************************************************************)
PG_fini ==
    /\ Quiescent
    /\ loaded
    /\ ExecutorRun_hook' = RestoredHook(prev_ExecutorRun_hook)
    /\ loaded' = FALSE
    /\ UNCHANGED <<relation_oid, col_no, abort_statement_only, elevel,
                   prev_ExecutorRun_hook, hook_before_init, pc, queryDesc,
                   plan_vars, producer_vars, consumer_vars, host_vars,
                   exit_reason>>

(***************************************************************************)
(* sentinel_ExecutorRun, up to the start of the plan: the sanity checks,   *)
(* instrumentation start, es_processed = 0, sendTuples, rStartup.  The     *)
(* host calls it when it is the installed hook.  The sanity checks are     *)
(* compiled out of a production build, which runs an explain-only          *)
(* descriptor like any other.                                              *)
(***************************************************************************)
sentinel_Enter(qds) ==
    /\ Quiescent
    /\ ExecutorRun_hook = SentinelHook
    /\ \E q \in qds :
        /\ queryDesc' = q
        /\ nInstrStart' = Bump(nInstrStart, q.totaltime)
        /\ sendTuples' = SendTuplesFor(q.operation, q.hasReturning)
        /\ nStartup' = Bump(nStartup, SendTuplesFor(q.operation, q.hasReturning))
    /\ es_processed' = 0
    /\ pc' = "run_plan"
    /\ UNCHANGED <<module_vars, use_parallel_mode, current_tuple_count, slot,
                   producer_vars, delivered, nreceived, declined, nShutdown,
                   nInstrStop, instr_tuples, nEnterParallel, nExitParallel,
                   nPrevHookCalls, oob_write, exit_reason>>

\* a build with the sanity checks compiled in stops the backend on an
\* explain-only descriptor, before anything else happens
sentinel_SanityTrap(qds) ==
    /\ Quiescent
    /\ ExecutorRun_hook = SentinelHook
    /\ \E q \in qds :
        /\ q.explainOnly
        /\ queryDesc' = q
    /\ pc' = "crashed"
    /\ exit_reason' = "trap"
    /\ UNCHANGED <<module_vars, plan_vars, producer_vars, consumer_vars,
                   host_vars>>

(***************************************************************************)
(* Control is back in the host, normally or not: the query descriptor and  *)
(* what was observed of this execution are gone.  es_processed keeps its   *)
(* value: the host may run the same executor state again.                  *)
(***************************************************************************)
sentinel_Return ==
    /\ pc \in {"returned", "crashed"}
    /\ pc' = "idle"
    /\ queryDesc' = NoQuery
    /\ sendTuples' = FALSE
    /\ use_parallel_mode' = FALSE
    /\ current_tuple_count' = 0
    /\ slot' = NoRow
    /\ pulled' = NoRow
    /\ delivered' = NoRow
    /\ npulled' = 0
    /\ nreceived' = 0
    /\ declined' = FALSE
    /\ exit_reason' = "none"
    /\ nShutdownNode' = 0
    /\ nStartup' = 0
    /\ nShutdown' = 0
    /\ nInstrStart' = 0
    /\ nInstrStop' = 0
    /\ instr_tuples' = 0
    /\ nEnterParallel' = 0
    /\ nExitParallel' = 0
    /\ nPrevHookCalls' = 0
    /\ oob_write' = FALSE
    /\ UNCHANGED <<module_vars, es_processed>>

(***************************************************************************)
(* if (!ScanDirectionIsNoMovement(direction)) ExecutePlan(...): the        *)
(* prologue of ExecutePlan, or nothing at all.                             *)
(***************************************************************************)
ExecutePlan_Begin ==
    /\ pc = "run_plan"
    /\ RunsPlan(queryDesc.direction)
    /\ current_tuple_count' = 0
    /\ use_parallel_mode' = UseParallel(queryDesc.count, queryDesc.parallelModeNeeded)
    /\ nEnterParallel' = Bump(nEnterParallel,
                              UseParallel(queryDesc.count, queryDesc.parallelModeNeeded))
    /\ pc' = "loop"
    /\ UNCHANGED <<module_vars, queryDesc, sendTuples, slot, es_processed,
                   producer_vars, consumer_vars, nInstrStart, nInstrStop,
                   instr_tuples, nExitParallel, nPrevHookCalls, oob_write,
                   exit_reason>>

sentinel_SkipPlan ==
    /\ pc = "run_plan"
    /\ ~RunsPlan(queryDesc.direction)
    /\ pc' = "shutdown_dest"
    /\ exit_reason' = "no_movement"
    /\ UNCHANGED <<module_vars, queryDesc, plan_vars, producer_vars,
                   consumer_vars, host_vars>>

(***************************************************************************)
(* slot = ExecProcNode(planstate): a row, or the end of the stream, on     *)
(* which the node is shut down and the loop left.                          *)
(***************************************************************************)
ExecProcNode_Row(rows) ==
    /\ pc = "loop"
    /\ npulled < MaxRows
    /\ \E r \in rows :
        /\ slot' = r
        /\ pulled' = r
    /\ npulled' = npulled + 1
    /\ delivered' = NoRow
    /\ pc' = "count"
    /\ UNCHANGED <<module_vars, queryDesc, sendTuples, use_parallel_mode,
                   current_tuple_count, es_processed, nShutdownNode, nreceived,
                   declined, nStartup, nShutdown, host_vars, exit_reason>>

ExecProcNode_End ==
    /\ pc = "loop"
    /\ slot' = NoRow
    /\ nShutdownNode' = nShutdownNode + 1
    /\ exit_reason' = "exhausted"
    /\ pc' = "after_loop"
    /\ UNCHANGED <<module_vars, queryDesc, sendTuples, use_parallel_mode,
                   current_tuple_count, es_processed, pulled, npulled,
                   consumer_vars, host_vars>>

(***************************************************************************)
(* if (operation == CMD_SELECT) { if (tts_tableOid == relation_oid)        *)
(* { tamper } es_processed++ }.  Nothing in the code looks at elevel: a    *)
(* row of the monitored relation is tampered and then sent on.             *)
(***************************************************************************)
\* the block when the row is not tampered, or is tampered inside its array
CountTuple(rands) ==
    /\ pc = "count"
    /\ \/ queryDesc.operation # CMD_SELECT
       \/ ~IsMonitored(slot, relation_oid)
       \/ AttrInRow(slot, col_no)
    /\ \E r \in rands :
        slot' = IF queryDesc.operation = CMD_SELECT /\ IsMonitored(slot, relation_oid)
                THEN TamperSlot(slot, col_no, r)
                ELSE slot
    /\ es_processed' = CountProcessed(queryDesc.operation, es_processed)
    /\ pc' = "send"
    /\ UNCHANGED <<module_vars, queryDesc, sendTuples, use_parallel_mode,
                   current_tuple_count, producer_vars, consumer_vars, host_vars,
                   exit_reason>>

\* col_no - 1 is no index of the row's attribute array: the read and the
\* write are outside it.  Either memory outside the array is overwritten
\* and the loop goes on ...
CountTuple_Outside ==
    /\ pc = "count"
    /\ queryDesc.operation = CMD_SELECT
    /\ IsMonitored(slot, relation_oid)
    /\ ~AttrInRow(slot, col_no)
    /\ oob_write' = TRUE
    /\ es_processed' = CountProcessed(queryDesc.operation, es_processed)
    /\ pc' = "send"
    /\ UNCHANGED <<module_vars, queryDesc, sendTuples, use_parallel_mode,
                   current_tuple_count, slot, producer_vars, consumer_vars,
                   nInstrStart, nInstrStop, instr_tuples, nEnterParallel,
                   nExitParallel, nPrevHookCalls, exit_reason>>

\* ... or the access is caught (slot_getattr reports an invalid attribute
\* number, or the backend faults) and the statement ends there
CountTuple_Fault ==
    /\ pc = "count"
    /\ queryDesc.operation = CMD_SELECT
    /\ IsMonitored(slot, relation_oid)
    /\ ~AttrInRow(slot, col_no)
    /\ pc' = "crashed"
    /\ exit_reason' = "fault"
    /\ UNCHANGED <<module_vars, queryDesc, plan_vars, producer_vars,
                   consumer_vars, host_vars>>

(***************************************************************************)
(* if (sendTuples) { if (!receiveSlot(slot, dest)) break; }                *)
(***************************************************************************)
SendTuple ==
    /\ pc = "send"
    /\ IF sendTuples
       THEN \E ok \in BOOLEAN :
              /\ delivered' = slot
              /\ nreceived' = nreceived + 1
              /\ declined' = ~ok
              /\ pc' = IF ok THEN "check" ELSE "after_loop"
              /\ exit_reason' = IF ok THEN exit_reason ELSE "closed"
       ELSE /\ pc' = "check"
            /\ UNCHANGED <<delivered, nreceived, declined, exit_reason>>
    /\ UNCHANGED <<module_vars, queryDesc, plan_vars, producer_vars, nStartup,
                   nShutdown, host_vars>>

(***************************************************************************)
(* current_tuple_count++; if (numberTuples && numberTuples ==              *)
(* current_tuple_count) break;                                             *)
(***************************************************************************)
CheckCount ==
    /\ pc = "check"
    /\ current_tuple_count' = current_tuple_count + 1
    /\ IF QuotaReached(queryDesc.count, current_tuple_count + 1)
       THEN /\ pc' = "after_loop"
            /\ exit_reason' = "quota"
       ELSE /\ pc' = "loop"
            /\ UNCHANGED exit_reason
    /\ UNCHANGED <<module_vars, queryDesc, sendTuples, use_parallel_mode, slot,
                   es_processed, producer_vars, consumer_vars, host_vars>>

(***************************************************************************)
(* After the loop: if (!(es_top_eflags & EXEC_FLAG_BACKWARD))              *)
(* ExecShutdownNode(planstate); if (use_parallel_mode) ExitParallelMode(); *)
(***************************************************************************)
ExecutePlan_End ==
    /\ pc = "after_loop"
    /\ nShutdownNode' = Bump(nShutdownNode, ShutdownAtEnd(queryDesc.backward))
    /\ nExitParallel' = Bump(nExitParallel, use_parallel_mode)
    /\ pc' = "shutdown_dest"
    /\ UNCHANGED <<module_vars, queryDesc, plan_vars, pulled, npulled,
                   consumer_vars, nInstrStart, nInstrStop, instr_tuples,
                   nEnterParallel, nPrevHookCalls, oob_write, exit_reason>>

(***************************************************************************)
(* The end of sentinel_ExecutorRun: rShutdown if the receiver was started, *)
(* InstrStopNode(totaltime, es_processed).  The saved previous hook is not *)
(* called anywhere in the function.                                        *)
(***************************************************************************)
sentinel_Finish ==
    /\ pc = "shutdown_dest"
    /\ nShutdown' = Bump(nShutdown, sendTuples)
    /\ nInstrStop' = Bump(nInstrStop, queryDesc.totaltime)
    /\ instr_tuples' = IF queryDesc.totaltime THEN InstrStopTuples(es_processed)
                                            ELSE instr_tuples
    /\ pc' = "returned"
    /\ UNCHANGED <<module_vars, queryDesc, plan_vars, producer_vars, delivered,
                   nreceived, declined, nStartup, nInstrStart, nEnterParallel,
                   nExitParallel, nPrevHookCalls, oob_write, exit_reason>>

RandValues == 0..MaxRand

Next ==
    \/ PG_init(AllGucs)
    \/ PG_fini
    \/ sentinel_Enter(AllQueryDescs)
    \/ sentinel_SanityTrap(AllQueryDescs)
    \/ ExecutePlan_Begin
    \/ sentinel_SkipPlan
    \/ ExecProcNode_Row(PlainRows)
    \/ ExecProcNode_End
    \/ CountTuple(RandValues)
    \/ CountTuple_Outside
    \/ CountTuple_Fault
    \/ SendTuple
    \/ CheckCount
    \/ ExecutePlan_End
    \/ sentinel_Finish
    \/ sentinel_Return

Spec == Init /\ [][Next]_vars

\* the same program over rows of every width with values at the ends of
\* int32 and null attributes, for fewer shapes of statement
NextData ==
    \/ PG_init(AllGucs)
    \/ PG_fini
    \/ sentinel_Enter(DataQueryDescs)
    \/ sentinel_SanityTrap(DataQueryDescs)
    \/ ExecutePlan_Begin
    \/ sentinel_SkipPlan
    \/ ExecProcNode_Row(DataRows)
    \/ ExecProcNode_End
    \/ CountTuple(RandValues)
    \/ CountTuple_Outside
    \/ CountTuple_Fault
    \/ SendTuple
    \/ CheckCount
    \/ ExecutePlan_End
    \/ sentinel_Finish
    \/ sentinel_Return

SpecData == Init /\ [][NextData]_vars

(***************************************************************************)
(* Properties.                                                             *)
(***************************************************************************)
\* the statement is a read
IsSelect == queryDesc.operation = CMD_SELECT

\* the row last pulled has been through the counting block
PastCount == pc \in {"send", "check", "loop", "after_loop", "shutdown_dest", "returned"}

\* ExecutePlan has left its loop
LoopLeft == pc \in {"after_loop", "shutdown_dest", "returned"}

\* rows the consumer took without declining
Accepted == IF declined THEN nreceived - 1 ELSE nreceived

\* out - orig lies in [NoiseLow, NoiseHigh], written so that no bound is
\* computed outside int32
WithinNoise(orig, out) ==
    /\ orig < MinInt32 - NoiseLow \/ out >= orig + NoiseLow
    /\ orig > MaxInt32 - NoiseHigh \/ out <= orig + NoiseHigh

\* C1: once the module is loaded (elevel is ERROR or FATAL) with a relation
\* and a column of it configured, a read that has pulled a row of the
\* monitored relation is terminated abnormally at that row: the row is not
\* handed to the consumer, the loop does not go on, the consumer is not shut
\* down, and es_processed counts only the rows before it.
C1_AbortOnFirstMatch ==
    ( /\ elevel \in {ERROR, FATAL}
      /\ relation_oid # GucBootValue
      /\ IsSelect
      /\ pulled # NoRow
      /\ pulled.tableOid = relation_oid
      /\ col_no \in 1..Len(pulled.values)
      /\ pc # "count" )
    => ( /\ pc = "crashed"
         /\ delivered = NoRow
         /\ nShutdown = 0
         /\ es_processed = npulled - 1 )

\* C2: in a read, a row whose origin is not the monitored relation leaves
\* the counting block as it was pulled, is handed to the consumer as it was
\* pulled, and raises es_processed by one (from npulled - 1 to npulled),
\* whatever rand() returned.
C2_NonMatchingUnchanged ==
    ( /\ IsSelect
      /\ pulled # NoRow
      /\ pulled.tableOid # relation_oid
      /\ pc # "crashed" )
    => ( /\ pc = "count" => es_processed = npulled - 1 /\ slot = pulled
         /\ pc # "count" => es_processed = npulled
         /\ pc \in {"send", "check"} => slot = pulled
         /\ delivered # NoRow => delivered = pulled )

C2_Witness ==
    /\ pc = "returned"
    /\ IsSelect
    /\ relation_oid = MonitoredOid
    /\ col_no = 1
    /\ pulled.tableOid = OtherOid
    /\ pulled.values[1] = MaxInt32
    /\ delivered = pulled
    /\ es_processed = 2

\* C3: in a read, when a row of the monitored relation whose monitored
\* attribute is not null is handed to the consumer, the value handed over
\* differs from the value pulled by at least -5 and at most 5.
C3_NoiseWithinRange ==
    ( /\ IsSelect
      /\ delivered # NoRow
      /\ pulled.tableOid = relation_oid
      /\ col_no \in 1..Len(pulled.values)
      /\ ~pulled.isnull[col_no] )
    => WithinNoise(pulled.values[col_no], delivered.values[col_no])

\* C4: in a read, a row of the monitored relation whose monitored attribute
\* is null is handed to the consumer exactly as it was pulled, stored datum
\* of the null attribute included.
C4_NullSkipped ==
    ( /\ IsSelect
      /\ delivered # NoRow
      /\ pulled.tableOid = relation_oid
      /\ col_no \in 1..Len(pulled.values)
      /\ pulled.isnull[col_no] )
    => delivered = pulled

\* C5: with relation_oid or column_no left at its boot value 0, no row is
\* changed, nothing outside a row is written, no statement ends in a fault,
\* and every row handed to the consumer is the row that was pulled.
C5_DisabledPassThrough ==
    ( /\ loaded
      /\ relation_oid = GucBootValue \/ col_no = GucBootValue )
    => ( /\ ~oob_write
         /\ exit_reason # "fault"
         /\ pc \in {"send", "check"} => slot = pulled
         /\ delivered # NoRow => delivered = pulled )

\* C6: with sendTuples and a quota q > 0, never more than q rows are handed
\* to the consumer; once the consumer has taken q rows the loop is left, or
\* is at the count check that leaves it, with exactly q rows pulled, and it
\* is left by the quota and not by a fault; a loop left for the quota has
\* handed over exactly q rows, and a loop left on exhaustion fewer than q
\* accepted or exactly q with the quota not yet checked is impossible.
C6_QuotaStops ==
    ( /\ sendTuples
      /\ queryDesc.count # 0
      /\ pc \notin {"idle", "run_plan"} )
    => ( /\ nreceived <= queryDesc.count
         /\ Accepted = queryDesc.count
              => /\ pc \in {"check", "after_loop", "shutdown_dest", "returned"}
                 /\ npulled = queryDesc.count
                 /\ nreceived = queryDesc.count
                 /\ pc = "check" => current_tuple_count + 1 = queryDesc.count
                 /\ pc # "check" => exit_reason = "quota"
         /\ exit_reason = "quota" => Accepted = queryDesc.count
         /\ exit_reason = "exhausted" => Accepted < queryDesc.count )

C6_Witness ==
    /\ pc = "returned"
    /\ sendTuples
    /\ queryDesc.count = 2
    /\ exit_reason = "quota"
    /\ nreceived = 2
    /\ npulled = 2

\* C7 as stated: when the consumer declines the k-th row handed to it,
\* exactly k rows were handed over (all that were pulled), the loop is left
\* without pulling again and without a fault, and ExecShutdownNode is
\* called exactly once in that execution.
C7_DeclineReleasesOnce ==
    declined
    => ( /\ LoopLeft
         /\ exit_reason = "closed"
         /\ nreceived = npulled
         /\ pc \in {"shutdown_dest", "returned"} => nShutdownNode = 1 )

\* C7 as amended: ... and ExecShutdownNode is called exactly once when
\* EXEC_FLAG_BACKWARD is not set, and not at all when it is set.
C7_DeclineReleasesUnlessBackward ==
    declined
    => ( /\ LoopLeft
         /\ exit_reason = "closed"
         /\ nreceived = npulled
         /\ pc = "after_loop" => nShutdownNode = 0
         /\ pc \in {"shutdown_dest", "returned"}
              => nShutdownNode = IF queryDesc.backward THEN 0 ELSE 1 )

C7_Witness ==
    /\ pc = "returned"
    /\ declined
    /\ nreceived = 2
    /\ queryDesc.backward
    /\ nShutdownNode = 0

\* C8: when ExecutePlan has ended ordinarily (exhaustion, consumer closed,
\* quota) with EXEC_FLAG_BACKWARD not set, ExecShutdownNode was called
\* exactly once in that execution.
C8_ReleaseExactlyOnce ==
    ( /\ pc \in {"shutdown_dest", "returned"}
      /\ exit_reason \in {"exhausted", "closed", "quota"}
      /\ ~queryDesc.backward )
    => nShutdownNode = 1

\* C9: in a read, es_processed is 0 when the plan is about to run, counts
\* every row pulled so far once the row is through the counting block, and
\* so equals the number of rows pulled when the hook has returned.
C9_ProcessedCountsPulled ==
    /\ pc = "run_plan" => es_processed = 0
    /\ IsSelect /\ pc = "count" => es_processed = npulled - 1
    /\ IsSelect /\ PastCount => es_processed = npulled

C9_Witness ==
    /\ pc = "returned"
    /\ IsSelect
    /\ npulled = 2
    /\ es_processed = 2
    /\ declined
    /\ pulled.tableOid = relation_oid

\* C10: when another hook was installed before the module was loaded, an
\* execution that went through sentinel_ExecutorRun has called that hook.
C10_PrevHookCalled ==
    ( /\ pc = "returned"
      /\ prev_ExecutorRun_hook = OtherHook )
    => nPrevHookCalls >= 1

\* C11: whenever the module is not loaded, the installed hook is the hook
\* that was installed before the module was last loaded ("NULL" included):
\* _PG_fini undoes _PG_init, whatever was executed in between.
C11_TeardownRestoresHook ==
    ~loaded => ExecutorRun_hook = hook_before_init

C11_Witness ==
    /\ ~loaded
    /\ elevel = FATAL
    /\ hook_before_init = OtherHook
    /\ ExecutorRun_hook = OtherHook
    /\ es_processed = 2

\* C12: an execution entered with an explain-only descriptor is refused:
\* it ends at the sanity check, the consumer is not started, and no row is
\* pulled or handed to the consumer.
C12_ExplainOnlyRefused ==
    ( /\ queryDesc.explainOnly
      /\ pc # "idle" )
    => ( /\ pc = "crashed"
         /\ nStartup = 0
         /\ npulled = 0
         /\ nreceived = 0 )

\* the operation of the statement emits rows: a read, or a write with a
\* RETURNING list
EmitsRows == queryDesc.operation = CMD_SELECT \/ queryDesc.hasReturning

\* the hook has started the consumer and is before its end
Running == pc \in {"run_plan", "loop", "count", "send", "check", "after_loop",
                   "shutdown_dest"}

\* C13: while the hook runs, rStartup has been called once if the operation
\* emits rows and not at all otherwise, and rShutdown has not been called,
\* so every row is pulled and handed over between the two; a row is handed
\* over only to a started consumer; when the hook has returned, rShutdown
\* has been called once if rStartup was and not at all otherwise.
C13_ConsumerLifecycle ==
    /\ Running \/ pc = "returned" => nStartup = IF EmitsRows THEN 1 ELSE 0
    /\ Running => nShutdown = 0
    /\ nreceived > 0 => nStartup = 1
    /\ pc = "returned" => nShutdown = nStartup

C13_Witness ==
    /\ pc = "returned"
    /\ queryDesc.operation = CMD_INSERT
    /\ queryDesc.hasReturning
    /\ nStartup = 1
    /\ nShutdown = 1
    /\ nreceived = 2

\* ExecutePlan has ended in one of its ordinary ways
OrdinaryEnd ==
    /\ pc \in {"shutdown_dest", "returned"}
    /\ exit_reason \in {"exhausted", "closed", "quota"}

\* C14: when ExecutePlan has ended ordinarily with EXEC_FLAG_BACKWARD set,
\* ExecShutdownNode was not called in that execution.
C14_BackwardSkipsRelease ==
    ( /\ OrdinaryEnd
      /\ queryDesc.backward )
    => nShutdownNode = 0

\* C15 as stated: a loop left for the quota q has handed exactly q rows to
\* the consumer, whether or not rows are emitted.
C15_QuotaCountsForwarded ==
    exit_reason = "quota" => nreceived = queryDesc.count

\* C15 as amended: the quota counts completed iterations of the loop.  While
\* the loop runs with a quota q > 0 fewer than q iterations are complete; a
\* loop left for the quota has completed exactly q, which with row emission
\* are q rows pulled, handed over and accepted, and without row emission are
\* q rows pulled and none handed over.
C15_QuotaCountsIterations ==
    /\ ( /\ queryDesc.count # 0
         /\ pc \in {"loop", "count", "send", "check"} )
       => current_tuple_count < queryDesc.count
    /\ exit_reason = "quota"
       => ( /\ current_tuple_count = queryDesc.count
            /\ npulled = queryDesc.count
            /\ nreceived = IF sendTuples THEN queryDesc.count ELSE 0
            /\ ~declined )

C15_Witness ==
    /\ pc = "returned"
    /\ exit_reason = "quota"
    /\ ~sendTuples
    /\ queryDesc.count = 2
    /\ npulled = 2
    /\ nreceived = 0

\* every attribute but the one at position attno is the same in both rows
SameElsewhere(a, b, attno) ==
    /\ a.tableOid = b.tableOid
    /\ a.isnull = b.isnull
    /\ Len(a.values) = Len(b.values)
    /\ \A i \in 1..Len(a.values) : i # attno => a.values[i] = b.values[i]

\* C16: in a read, a row of the monitored relation is changed in the one
\* attribute at position col_no only, for every col_no and every width of
\* row: col_no - 1 is an index of the row's attributes, nothing outside the
\* row is written, the statement does not end in a fault, and all other
\* values and all null flags are as pulled.
C16_OnlyMonitoredSlot ==
    ( /\ IsSelect
      /\ relation_oid # GucBootValue
      /\ pulled # NoRow
      /\ pulled.tableOid = relation_oid
      /\ pc # "count" )
    => ( /\ col_no \in 1..Len(pulled.values)
         /\ ~oob_write
         /\ exit_reason # "fault"
         /\ pc \in {"send", "check"} => SameElsewhere(pulled, slot, col_no)
         /\ delivered # NoRow => SameElsewhere(pulled, delivered, col_no) )

\* C17: in an execution that is not a read, every row leaves the counting
\* block and reaches the consumer as it was pulled, also a row of the
\* monitored relation, nothing outside a row is written, no fault occurs,
\* and es_processed stays at the 0 the hook set it to.
C17_WritesPassThrough ==
    ( /\ ~IsSelect
      /\ pc # "idle" )
    => ( /\ pc # "crashed" => es_processed = 0
         /\ pc \in {"count", "send", "check"} => slot = pulled
         /\ delivered # NoRow => delivered = pulled
         /\ ~oob_write
         /\ exit_reason # "fault" )

C17_Witness ==
    /\ pc = "returned"
    /\ ~IsSelect
    /\ relation_oid = MonitoredOid
    /\ col_no = 1
    /\ pulled.tableOid = relation_oid
    /\ delivered = pulled
    /\ npulled = 2
    /\ es_processed = 0

\* C18: with instrumentation, InstrStartNode has been called once and
\* InstrStopNode not yet while the hook runs (so before the first row is
\* pulled and until after the last), and when the hook has returned both
\* have been called once and InstrStopNode was given the final es_processed;
\* without instrumentation neither is called.
C18_InstrumentationBrackets ==
    /\ Running => /\ nInstrStart = (IF queryDesc.totaltime THEN 1 ELSE 0)
                  /\ nInstrStop = 0
    /\ pc = "returned"
         => /\ nInstrStart = (IF queryDesc.totaltime THEN 1 ELSE 0)
            /\ nInstrStop = nInstrStart
            /\ queryDesc.totaltime => instr_tuples = es_processed

C18_Witness ==
    /\ pc = "returned"
    /\ queryDesc.totaltime
    /\ nInstrStart = 1
    /\ nInstrStop = 1
    /\ npulled = 2
    /\ instr_tuples = 2

\* C19: parallel mode is entered at most once, and only for a plan that
\* needs it run without a row quota; inside the loop it has been entered
\* exactly when use_parallel_mode is set and has not been left; when
\* ExecutePlan has ended ordinarily it has been left as often as entered.
C19_ParallelBracketing ==
    /\ nEnterParallel <= 1
    /\ nEnterParallel = 1 => queryDesc.count = 0 /\ queryDesc.parallelModeNeeded
    /\ pc \in {"loop", "count", "send", "check", "after_loop"}
         => /\ nEnterParallel = (IF queryDesc.count = 0 /\ queryDesc.parallelModeNeeded
                                 THEN 1 ELSE 0)
            /\ nExitParallel = 0
    /\ OrdinaryEnd => nExitParallel = nEnterParallel

C19_Witness ==
    /\ pc = "returned"
    /\ exit_reason = "closed"
    /\ queryDesc.parallelModeNeeded
    /\ nEnterParallel = 1
    /\ nExitParallel = 1

\* C20: in an execution with direction NoMovement no row is pulled, changed
\* or handed over and ExecShutdownNode is not called; the consumer is still
\* started when the operation emits rows, and when the hook has returned it
\* has been shut down as often as started and es_processed is 0.
C20_NoMovementSkipsLoop ==
    ( /\ queryDesc.direction = NoMovement
      /\ pc \notin {"idle", "crashed"} )
    => ( /\ pc \in {"run_plan", "shutdown_dest", "returned"}
         /\ npulled = 0
         /\ nreceived = 0
         /\ nShutdownNode = 0
         /\ slot = NoRow
         /\ ~oob_write
         /\ es_processed = 0
         /\ nStartup = (IF EmitsRows THEN 1 ELSE 0)
         /\ pc = "returned" => nShutdown = nStartup )

C20_Witness ==
    /\ pc = "returned"
    /\ queryDesc.direction = NoMovement
    /\ IsSelect
    /\ exit_reason = "no_movement"
    /\ nStartup = 1
    /\ nShutdown = 1
    /\ npulled = 0

====
